---- MODULE Spec2Model ----
(***************************************************************************)
(* Sidebar directory tree of the documentation theme                       *)
(* (src/docs/theme/index.js): the route normaliser getFSRoute, the         *)
(* module-level TreeState map, and the Folder / File / Menu components     *)
(* with Folder's effect and click handler; and the type guard              *)
(* hasSortableData (src/packages/sortable/src/types/type-guard.ts).        *)
(*                                                                         *)
(* Paths are TLA+ strings; the two regular expressions of getFSRoute are   *)
(* matched character by character.                                         *)
(***************************************************************************)
EXTENDS Integers, Sequences, FiniteSets, TLC

VARIABLES
  asPath,       \* router.asPath of the last navigation
  locale,       \* router.locale ("" when the site has no locale)
  TreeState,    \* the module-level map: folder route -> BOOLEAN, partial
  open,         \* per folder: `open` as computed by its last render
  active,       \* per Folder and File: `active` as computed by its last render
  config,       \* config.defaultMenuCollapsed, coerced by !!
  last,         \* history: the event handled last, and for a click the
                \* resolved open state of its folder before the click and
                \* whether the event before it was a click on the same folder
  norm,         \* results of successive getFSRoute applications (SpecNorm)
  guard         \* an entry and what hasSortableData made of it (SpecGuard)

vars == <<asPath, locale, TreeState, open, active, config, last, norm, guard>>

----------------------------------------------------------------------------
(* Bounds *)

\* paths fed to the normaliser are concatenations of at most MaxPieces pieces
MaxPieces == 3
\* getFSRoute is applied to its own result at most MaxApply times
MaxApply == 2

----------------------------------------------------------------------------
(* Strings *)

\* s.slice(i-1): the suffix of s from position i (1-based)
From(s, i) == SubSeq(s, i, Len(s))

\* the text pat occurs in s at position i
StartsAt(s, i, pat) ==
  /\ i >= 1
  /\ i + Len(pat) - 1 <= Len(s)
  /\ SubSeq(s, i, i + Len(pat) - 1) = pat

\* the group (/|$) tried at position j of s: "/" if a slash is there, "" at
\* the end of the input, and no match (FALSE) elsewhere
GroupOk(s, j) == StartsAt(s, j, "/") \/ j = Len(s) + 1
Group1(s, j) == IF StartsAt(s, j, "/") THEN "/" ELSE ""

\* String.prototype.replace with a non-global RegExp `lit(/|$)` and the
\* replacement '$1': only the leftmost match is replaced. `skip` is the
\* number of arbitrary characters the pattern demands before lit (0 or 1).
ReplaceFirst(s, skip, lit) ==
  LET hits == { i \in 1..Len(s) :
                  /\ StartsAt(s, i + skip, lit)
                  /\ GroupOk(s, i + skip + Len(lit)) }
  IN IF hits = {} THEN s
     ELSE LET i == CHOOSE h \in hits : \A k \in hits : h <= k
              j == i + skip + Len(lit)
          IN SubSeq(s, 1, i - 1) \o Group1(s, j) \o From(s, j + Len(Group1(s, j)))

\* asPath.replace(new RegExp('/index(/|$)'), '$1')
StripIndex(s) == ReplaceFirst(s, 0, "/index")

\* variant: the dot of the pattern matches a dot only
StripLocaleLiteral(s, l) == ReplaceFirst(s, 0, "." \o l)

\* asPath.replace(new RegExp(`\.${locale}(\/|$)`), '$1'): inside the template
\* literal `\.` is the one character `.`, so the pattern is  .<locale>(/|$)
\* and its first atom matches any one character
StripLocale(s, l) == ReplaceFirst(s, 1, l)

getFSRoute(p, l) ==
  IF l = "" THEN StripIndex(p)
  ELSE StripIndex(StripLocale(p, l))

----------------------------------------------------------------------------
(* hasSortableData *)

\* A JavaScript value as far as the guard looks at it: its kind, and for an
\* object the names of its own properties
Val(t, keys) == [t |-> t, keys |-> keys]
Undefined == Val("undefined", {})

\* typeof v: null is an 'object'
TypeOf(v) == IF v.t = "null" THEN "object" ELSE v.t

\* key in v: a TypeError unless v is an object
In(key, v) ==
  IF v.t # "object" THEN "TypeError"
  ELSE IF key \in v.keys THEN "true" ELSE "false"

\* values of data.sortable
SortableKeys == {"containerId", "items", "index", "id", "disabled"}
SortableVals ==
  { Val(t, {}) : t \in {"undefined", "null", "number", "string"} }
    \cup { Val("object", ks) : ks \in SUBSET SortableKeys }

\* values of entry.data.current: undefined, null, or an object with or
\* without the properties sortable and id
CurrentVals ==
  { [t |-> t, keys |-> {}, sortable |-> Undefined] : t \in {"undefined", "null"} }
    \cup { [t |-> "object", keys |-> ks, sortable |-> Undefined] : ks \in SUBSET {"id"} }
    \cup { [t |-> "object", keys |-> ks \cup {"sortable"}, sortable |-> v]
           : ks \in SUBSET {"id"}, v \in SortableVals }

\* values of entry: null, undefined, or a node with data.current
EntryVals ==
  { [t |-> t, current |-> [t |-> "undefined", keys |-> {}, sortable |-> Undefined]]
    : t \in {"null", "undefined"} }
    \cup { [t |-> "object", current |-> c] : c \in CurrentVals }

\* hasSortableData: "true", "false", or "TypeError" when an `in` is applied
\* to null. The conjuncts of the && chain are evaluated left to right.
hasSortableData(entry) ==
  IF entry.t \in {"null", "undefined"} THEN "false"
  ELSE LET data == entry.current
       IN IF data.t \in {"undefined", "null"} THEN "false"
          ELSE IF "sortable" \notin data.keys THEN "false"
          ELSE IF TypeOf(data.sortable) # "object" THEN "false"
          ELSE IF In("containerId", data.sortable) # "true" THEN In("containerId", data.sortable)
          ELSE IF In("items", data.sortable) # "true" THEN In("items", data.sortable)
          ELSE In("index", data.sortable)

\* the guard has not been called
NoGuard == [called |-> FALSE, entry |-> CHOOSE e \in EntryVals : e.t = "null", result |-> "false"]

----------------------------------------------------------------------------
(* The page tree handed to Sidebar *)

directories ==
  << [name |-> "intro", route |-> "/intro"],
     [name |-> "guides", route |-> "/guides", children |->
        << [name |-> "intro", route |-> "/guides/intro"],
           [name |-> "adv", route |-> "/guides/adv", children |->
              << [name |-> "x", route |-> "/guides/adv/x"],
                 [name |-> "deep", route |-> "/guides/adv/deep", children |->
                    << [name |-> "z", route |-> "/guides/adv/deep/z"] >>] >>],
           [name |-> "basic", route |-> "/guides/basic", children |->
              << [name |-> "y", route |-> "/guides/basic/y"] >>] >>] >>

\* `item.children` is truthy
IsFolder(item) == "children" \in DOMAIN item

\* Menu: every item of dir, and below each folder the Menu of its children,
\* each with the depth it is rendered at
RECURSIVE Menu(_, _)
Menu(dir, depth) ==
  UNION { {[route |-> dir[i].route, depth |-> depth, folder |-> IsFolder(dir[i])]}
          \cup (IF IsFolder(dir[i]) THEN Menu(dir[i].children, depth + 1) ELSE {})
          : i \in DOMAIN dir }

Rendered == Menu(directories, 0)
Folders == { n.route : n \in { m \in Rendered : m.folder } }
Files == { n.route : n \in { m \in Rendered : ~m.folder } }
Nodes == Folders \cup Files
DepthOf(r) == (CHOOSE n \in Rendered : n.route = r).depth

\* the items of a directory listing, at every depth
RECURSIVE Items(_)
Items(dir) ==
  UNION { {dir[i]} \cup (IF IsFolder(dir[i]) THEN Items(dir[i].children) ELSE {})
          : i \in DOMAIN dir }

\* what is rendered inside Folder r (its <Menu dir={item.children}>)
Inside(r) ==
  LET item == CHOOSE it \in Items(directories) : IsFolder(it) /\ it.route = r
  IN { n.route : n \in Menu(item.children, 0) }
Below(r) == Inside(r) \cap Folders

----------------------------------------------------------------------------
(* Inputs *)

Locales == {"", "fr"}

\* paths the router reports in the sidebar specification: the route of every
\* folder, of two pages and of a page outside the tree, and for one folder
\* and one page also the spellings that getFSRoute is there to reduce
NavBases == Folders \cup {"/guides/intro", "/guides/adv/x", "/other"}
NavSuffixes == {"/", "/index", ".fr"}
NavPaths == NavBases \cup { b \o x : b \in {"/guides/adv", "/guides/intro"}, x \in NavSuffixes }

\* paths fed to getFSRoute alone
Pieces == {"/index", "/", "/fr", ".fr", "/guides", "x"}
RECURSIVE Concat(_)
Concat(ps) == IF ps = <<>> THEN "" ELSE Head(ps) \o Concat(Tail(ps))
Paths == { Concat(ps) : ps \in UNION { [1..n -> Pieces] : n \in 0..MaxPieces } }

\* getFSRoute on every path the router can report, computed once
FSRoute == [p \in NavPaths, l \in Locales |-> getFSRoute(p, l)]

----------------------------------------------------------------------------
(* Folder and File *)

EmptyMap == [r \in {} |-> TRUE]

\* TreeState[route] = v
Put(ts, route, v) ==
  [r \in DOMAIN ts \cup {route} |-> IF r = route THEN v ELSE ts[r]]

\* variant: route.startsWith(item.route + '/')
IsActivePrefix(route, p, l) == StartsAt(FSRoute[p, l] \o "/", 1, route \o "/")

\* const route = getFSRoute(asPath, locale) + '/';
\* const active = route === item.route + '/';
IsActive(route, p, l) == FSRoute[p, l] \o "/" = route \o "/"

\* variant: TreeState[item.route] ?? true
IsOpenDefaultTrue(ts, route, collapsed) ==
  IF route \in DOMAIN ts THEN ts[route] ELSE TRUE

\* const open = TreeState[item.route] ?? !defaultMenuCollapsed;
IsOpen(ts, route, collapsed) ==
  IF route \in DOMAIN ts THEN ts[route] ELSE ~collapsed

\* variant: the effect is missing
EffectsNone(ts, ran, act) == ts

\* variant: TreeState[item.route] = active
RECURSIVE EffectsAssign(_, _, _)
EffectsAssign(ts, ran, act) ==
  IF ran = {} THEN ts
  ELSE LET f == CHOOSE x \in ran : TRUE
       IN EffectsAssign(Put(ts, f, act[f]), ran \ {f}, act)

\* variant: TreeState[item.route] = true without `if (active)`
RECURSIVE EffectsAlways(_, _, _)
EffectsAlways(ts, ran, act) ==
  IF ran = {} THEN ts
  ELSE LET f == CHOOSE x \in ran : TRUE
       IN EffectsAlways(Put(ts, f, TRUE), ran \ {f}, act)

\* useEffect(() => { if (active) TreeState[item.route] = true }, [active])
\* for every folder of `ran`, the folders whose effect runs after a commit
RECURSIVE Effects(_, _, _)
Effects(ts, ran, act) ==
  IF ran = {} THEN ts
  ELSE LET f == CHOOSE x \in ran : TRUE
       IN Effects(IF act[f] THEN Put(ts, f, TRUE) ELSE ts, ran \ {f}, act)

\* variant: {open && <Menu dir={item.children} />}
MountedIfOpen(op) ==
  { f \in Folders : \A g \in Folders : f \in Inside(g) => op[g] }

\* The Folders a commit renders when their `open` values are op: Folder
\* returns <Menu dir={item.children}> whatever `open` is, inside a <div>
\* whose style.display is 'none' when it is false
Mounted(op) == Folders

\* style={{display: open ? 'initial' : 'none'}} on the <div> around the
\* children of Folder f
Display(op, f) == IF op[f] THEN "initial" ELSE "none"

----------------------------------------------------------------------------
(* Sidebar: first mount, route changes, clicks *)

\* first render of the sidebar and its effects
Init ==
  /\ asPath \in NavPaths
  /\ locale \in Locales
  /\ config \in BOOLEAN
  /\ active = [n \in Nodes |-> IsActive(n, asPath, locale)]
  /\ open = [f \in Folders |-> IsOpen(EmptyMap, f, config)]
  /\ TreeState = Effects(EmptyMap, Mounted(open), active)
  /\ last = [kind |-> "mount", folder |-> "", was |-> FALSE, twice |-> FALSE]
  /\ norm = <<>>
  /\ guard = NoGuard

\* variant: `open` is computed by the first render only and kept
RouteChangeKeepOpen(p, l, remount) ==
  LET act == [n \in Nodes |-> IsActive(n, p, l)]
      ran == { f \in Mounted(open) : remount \/ act[f] # active[f] }
  IN /\ asPath' = p
     /\ locale' = l
     /\ active' = act
     /\ open' = open
     /\ TreeState' = Effects(TreeState, ran, act)
     /\ last' = [kind |-> "route", folder |-> "", was |-> FALSE, twice |-> FALSE]
     /\ UNCHANGED <<config, norm, guard>>

\* The router reports a new asPath / locale. Every Folder renders again
\* (remount = FALSE) or the whole layout is mounted anew with the new page
\* (remount = TRUE); then the effects of the commit run: all of them after a
\* mount, those whose dependency `active` changed after an update.
RouteChange(p, l, remount) ==
  LET act == [n \in Nodes |-> IsActive(n, p, l)]
      ran == { f \in Mounted(open') : remount \/ act[f] # active[f] }
  IN /\ asPath' = p
     /\ locale' = l
     /\ active' = act
     /\ open' = [f \in Folders |-> IsOpen(TreeState, f, config)]
     /\ TreeState' = Effects(TreeState, ran, act)
     /\ last' = [kind |-> "route", folder |-> "", was |-> FALSE, twice |-> FALSE]
     /\ UNCHANGED <<config, norm, guard>>

\* variant: TreeState[item.route] = open
ClickedSame(o) == o

\* the value the click handler stores: !open
Clicked(o) == ~o

\* variant: the handler without `if (active) return`
ToggleUnguarded(f) ==
  /\ DepthOf(f) > 0
  /\ TreeState' = Put(TreeState, f, ~open[f])
  /\ open' = [g \in Folders |->
                IF g \in {f} \cup Below(f)
                  THEN IsOpen(TreeState', g, config)
                  ELSE open[g]]
  /\ last' = [kind |-> "toggle", folder |-> f, was |-> IsOpen(TreeState, f, config),
              twice |-> (last.kind = "toggle" /\ last.folder = f)]
  /\ UNCHANGED <<asPath, locale, active, config, norm, guard>>

\* variant: the <button> is rendered at every depth
ToggleAnyDepth(f) ==
  /\ IF active[f]
       THEN UNCHANGED <<TreeState, open>>
       ELSE /\ TreeState' = Put(TreeState, f, Clicked(open[f]))
            /\ open' = [g \in Folders |->
                          IF g \in {f} \cup Below(f)
                            THEN IsOpen(TreeState', g, config)
                            ELSE open[g]]
  /\ last' = [kind |-> "toggle", folder |-> f, was |-> IsOpen(TreeState, f, config),
              twice |-> (last.kind = "toggle" /\ last.folder = f)]
  /\ UNCHANGED <<asPath, locale, active, config, norm, guard>>

\* onClick of the <button> of Folder f (rendered only when depth > 0), then
\* the render it requests: f and the folders inside it render again; no
\* dependency changed, so no effect runs
Toggle(f) ==
  /\ DepthOf(f) > 0
  /\ IF active[f]
       THEN UNCHANGED <<TreeState, open>>
       ELSE /\ TreeState' = Put(TreeState, f, Clicked(open[f]))
            /\ open' = [g \in Folders |->
                          IF g \in {f} \cup Below(f)
                            THEN IsOpen(TreeState', g, config)
                            ELSE open[g]]
  /\ last' = [kind |-> "toggle", folder |-> f, was |-> IsOpen(TreeState, f, config),
              twice |-> (last.kind = "toggle" /\ last.folder = f)]
  /\ UNCHANGED <<asPath, locale, active, config, norm, guard>>

Next ==
  \/ \E p \in NavPaths, l \in Locales, remount \in BOOLEAN : RouteChange(p, l, remount)
  \/ \E f \in Folders : Toggle(f)

Spec == Init /\ [][Next]_vars

----------------------------------------------------------------------------
(* getFSRoute alone *)

InitNorm ==
  /\ asPath \in Paths
  /\ locale \in Locales
  /\ norm = <<>>
  /\ config = FALSE
  /\ active = [n \in Nodes |-> FALSE]
  /\ open = [f \in Folders |-> TRUE]
  /\ TreeState = EmptyMap
  /\ last = [kind |-> "none", folder |-> "", was |-> FALSE, twice |-> FALSE]
  /\ guard = NoGuard

\* getFSRoute applied to asPath, then to its own result
Normalize ==
  /\ Len(norm) < MaxApply
  /\ norm' = Append(norm, getFSRoute(IF norm = <<>> THEN asPath ELSE norm[Len(norm)], locale))
  /\ UNCHANGED <<asPath, locale, TreeState, open, active, config, last, guard>>

NextNorm == Normalize

SpecNorm == InitNorm /\ [][NextNorm]_vars

----------------------------------------------------------------------------
(* hasSortableData alone *)

InitGuard ==
  /\ guard \in { [called |-> FALSE, entry |-> e, result |-> "false"] : e \in EntryVals }
  /\ asPath = ""
  /\ locale = ""
  /\ norm = <<>>
  /\ config = FALSE
  /\ active = [n \in Nodes |-> FALSE]
  /\ open = [f \in Folders |-> TRUE]
  /\ TreeState = EmptyMap
  /\ last = [kind |-> "none", folder |-> "", was |-> FALSE, twice |-> FALSE]

\* hasSortableData(entry)
Guard ==
  /\ ~guard.called
  /\ guard' = [called |-> TRUE, entry |-> guard.entry, result |-> hasSortableData(guard.entry)]
  /\ UNCHANGED <<asPath, locale, TreeState, open, active, config, last, norm>>

NextGuard == Guard

SpecGuard == InitGuard /\ [][NextGuard]_vars

----------------------------------------------------------------------------
(* Properties *)

\* the current canonical path
Canon == FSRoute[asPath, locale]

\* the text pat occurs somewhere in s
Contains(s, pat) == \E i \in 1..Len(s) : StartsAt(s, i, pat)

\* folder f has the same TreeState entry, or lack of one, in ts1 and ts2
SameEntry(ts1, ts2, f) ==
  /\ (f \in DOMAIN ts1) = (f \in DOMAIN ts2)
  /\ f \in DOMAIN ts1 => ts1[f] = ts2[f]

\* f is the node with route c or a folder that contains it
OnActivePath(f, c) == f = c \/ c \in Inside(f)

\* C1: getFSRoute is idempotent: applied to its own result, with the same
\* locale, it returns that result again.
C1_Idempotent == Len(norm) >= 2 => norm[2] = norm[1]

C4_ToggleFlips ==
  [][ (last'.kind = "toggle" /\ Canon # last'.folder) =>
      LET f == last'.folder
      IN /\ f \in DOMAIN TreeState'
         /\ TreeState'[f] = ~IsOpen(TreeState, f, config)
         /\ (last.kind = "toggle" /\ last.folder = f)
              => IsOpen(TreeState', f, config) = last.was ]_vars

C4_Witness ==
  /\ last.kind = "toggle"
  /\ Canon # last.folder
  /\ last.folder \in DOMAIN TreeState
  /\ TreeState[last.folder] = ~last.was
  /\ last.twice
  /\ Canon \in Inside(last.folder)

\* C5: with a locale, a path that does not contain the text "." + locale
\* passes the locale removal unchanged, so the result is that of the /index
\* removal alone.
C5_LiteralLocale ==
  (Len(norm) >= 1 /\ locale # "" /\ ~Contains(asPath, "." \o locale))
    => norm[1] = StripIndex(asPath)

\* C6: for locale "fr" and the path "/fr/guides/index" getFSRoute returns
\* "/guides".
C6_FrGuidesIndex ==
  (Len(norm) >= 1 /\ asPath = "/fr/guides/index" /\ locale = "fr")
    => norm[1] = "/guides"

C6_Witness == Len(norm) >= 1 /\ asPath = "/fr/guides/index" /\ locale = "fr"

\* C7: a node is active exactly when its route is the current canonical path
\* with or without one trailing "/"; a route that is only a strict prefix of
\* the path is not active.
C7_TrailingSlashInsensitive ==
  \A n \in Nodes : active[n] <=> (Canon = n \/ Canon = n \o "/")

\* C8: the number of active Pages is 1 when the current canonical path is the
\* route of a Page and 0 otherwise.
C8_OneActivePage ==
  Cardinality({ n \in Files : active[n] }) = (IF Canon \in Files THEN 1 ELSE 0)

C8_Witness == active["/guides/intro"] /\ asPath # "/guides/intro"

\* C9: handling a route change stores no false in TreeState and turns no
\* folder's resolved state from expanded to collapsed.
C9_Ratchet ==
  [][ last'.kind = "route" =>
      \A f \in Folders :
        /\ (f \in DOMAIN TreeState' /\ ~TreeState'[f])
             => (f \in DOMAIN TreeState /\ ~TreeState[f])
        /\ IsOpen(TreeState, f, config) => IsOpen(TreeState', f, config) ]_vars

C9_Witness ==
  /\ last.kind = "route"
  /\ \E f \in Folders : active[f] /\ ~open[f] /\ f \in DOMAIN TreeState /\ TreeState[f]
  /\ \E g \in Folders : g \in DOMAIN TreeState /\ ~TreeState[g]

\* C10: handling a route change leaves the TreeState entry, or the lack of
\* one, of every folder that is neither the matched node nor one of its
\* ancestors as it was.
C10_OffPathUntouched ==
  [][ last'.kind = "route" =>
      \A f \in Folders :
        ~OnActivePath(f, FSRoute[asPath', locale']) => SameEntry(TreeState, TreeState', f) ]_vars

C10_Witness ==
  /\ last.kind = "route"
  /\ active["/guides/adv"]
  /\ TreeState["/guides/adv"]
  /\ "/guides/basic" \in DOMAIN TreeState
  /\ ~TreeState["/guides/basic"]
  /\ "/guides/adv/deep" \notin DOMAIN TreeState

\* C11: a folder without a TreeState entry is rendered open exactly when
\* defaultMenuCollapsed is false, and an entry appears only for the folder a
\* click is on or for the folder whose route has become the current path.
C11_UnsetStaysUnset ==
  /\ [](\A f \in Folders : f \notin DOMAIN TreeState => open[f] = ~config)
  /\ [][ \A f \in Folders :
           (f \notin DOMAIN TreeState /\ f \in DOMAIN TreeState') =>
             \/ last'.kind = "toggle" /\ last'.folder = f
             \/ last'.kind = "route" /\ FSRoute[asPath', locale'] = f ]_vars

C11_Witness ==
  /\ last.kind = "route"
  /\ config
  /\ Canon = "/other"
  /\ "/guides" \notin DOMAIN TreeState
  /\ ~open["/guides"]
  /\ "/guides/adv" \in DOMAIN TreeState

\* C12 as stated: the folders inside a folder are processed only while it is
\* open, so a route change writes the entry of a folder only if every folder
\* around it is rendered open.
C12_ChildrenOnlyWhenOpen ==
  [][ last'.kind = "route" =>
      \A f \in Folders :
        ~SameEntry(TreeState, TreeState', f) =>
          \A g \in Folders : f \in Inside(g) => open'[g] ]_vars

\* C12 amended: the children of a folder are rendered whatever its open
\* state, only hidden (display none) while it is closed: a route change to
\* the route of a folder inside a closed folder marks that folder active and
\* stores true for it.
C12_ChildrenAlwaysRendered ==
  [][ last'.kind = "route" =>
      \A f \in Folders :
        (/\ FSRoute[asPath', locale'] = f
         /\ \E g \in Folders : f \in Inside(g) /\ Display(open', g) = "none")
          => (active'[f] /\ f \in DOMAIN TreeState' /\ TreeState'[f]) ]_vars

C12_Witness ==
  /\ last.kind = "route"
  /\ active["/guides/adv/deep"]
  /\ Display(open, "/guides/adv") = "none"
  /\ TreeState["/guides/adv/deep"]
  /\ ~open["/guides/adv/deep"]

\* C13: a click handled right after a route change acts on the state that
\* route change left: on a folder that is not active it stores the negation
\* of the folder's resolved state as it is after the route change's writes,
\* on the active folder it stores nothing, and every other entry stays as
\* the route change left it.
C13_ToggleAfterRoute ==
  [][ (last.kind = "route" /\ last'.kind = "toggle") =>
      LET f == last'.folder
      IN /\ \A g \in Folders \ {f} : SameEntry(TreeState, TreeState', g)
         /\ IF Canon = f
              THEN SameEntry(TreeState, TreeState', f)
              ELSE f \in DOMAIN TreeState' /\ TreeState'[f] = ~IsOpen(TreeState, f, config) ]_vars

C13_Witness ==
  /\ last.kind = "toggle"
  /\ ~last.twice
  /\ last.folder = "/guides/basic"
  /\ "/guides/basic" \in DOMAIN TreeState
  /\ TreeState["/guides/basic"] = ~last.was
  /\ active["/guides/adv"]
  /\ ~open["/guides/adv"]
  /\ TreeState["/guides/adv"]

\* C14: the open value every folder is displayed with is the resolved value
\* of its TreeState entry.
C14_DisplayedIsResolved ==
  \A f \in Folders : open[f] = IsOpen(TreeState, f, config)

\* C15: the Folder whose own route is the current canonical path has the
\* entry true, and has it still after any event that leaves it active.
C15_ActiveStaysTrue ==
  /\ [](\A f \in Folders : active[f] => (f \in DOMAIN TreeState /\ TreeState[f]))
  /\ [][ \A f \in Folders :
           (Canon = f /\ FSRoute[asPath', locale'] = f)
             => (f \in DOMAIN TreeState' /\ TreeState'[f]) ]_vars

C15_Witness ==
  /\ last.kind = "toggle"
  /\ last.twice
  /\ Canon = last.folder
  /\ asPath # Canon
  /\ ~open[last.folder]
  /\ TreeState[last.folder]

\* C16: a folder at depth 0 never has the entry false, and its entry changes
\* only when a route change makes it the current path.
C16_TopLevelNeverFalse ==
  /\ [](\A i \in DOMAIN directories :
          IsFolder(directories[i]) =>
            (directories[i].route \notin DOMAIN TreeState \/ TreeState[directories[i].route]))
  /\ [][ \A i \in DOMAIN directories :
           (IsFolder(directories[i]) /\ ~SameEntry(TreeState, TreeState', directories[i].route))
             => (last'.kind = "route" /\ FSRoute[asPath', locale'] = directories[i].route) ]_vars

C16_Witness ==
  /\ last.kind = "toggle"
  /\ "/guides" \in DOMAIN TreeState
  /\ TreeState["/guides"]
  /\ Canon # "/guides"
  /\ \E f \in Folders : f \in DOMAIN TreeState /\ ~TreeState[f]

\* C17: hasSortableData ends with true or false for every entry, never with
\* an error, and with true exactly when data.current.sortable is an object
\* that has containerId, items and index.
C17_TotalGuard ==
  guard.called =>
    /\ guard.result \in {"true", "false"}
    /\ guard.result = "true" <=>
         LET e == guard.entry
         IN /\ e.t = "object"
            /\ e.current.t = "object"
            /\ "sortable" \in e.current.keys
            /\ e.current.sortable.t = "object"
            /\ {"containerId", "items", "index"} \subseteq e.current.sortable.keys

====
